---- MODULE Spec2Model ----
(***************************************************************************)
(* Model of the system-information aggregation module of canarypiet        *)
(* (src/src/lib/systemInfo.ts): the five readers, getAllInfo and the       *)
(* /api/info handler, and of the Dashboard component that polls it.        *)
(*                                                                         *)
(* A JavaScript object used as a string-keyed map (Record<string,string>)  *)
(* is a TLA+ function whose domain is its key set.  Byte counts are kept   *)
(* in MiB (2^20 bytes) so that they fit 32-bit integers; a fractional      *)
(* number is kept as an integer in the unit its definition names.          *)
(***************************************************************************)
EXTENDS Integers, Sequences, FiniteSets, TLC

VARIABLES
  env,          \* process.env: variable name -> value (a set variable may be "")
  secretsDir,   \* whether /var/run/secrets/kubernetes.io exists
  cpus,         \* os.cpus(): the sequence of processor model names
  osIfaces,     \* outcome of os.networkInterfaces(): a value or a throw
  clock,        \* the wall clock, in milliseconds
  request,      \* the argument of the getAllInfo call in progress
  pc,           \* position of the getAllInfo call
  callStart,    \* clock reading when the call in progress was invoked
  resPc,        \* position of getSystemResources (which query it awaits)
  cpuLoad,      \* local cpuLoad of getSystemResources
  mem,          \* local mem of getSystemResources
  disks,        \* local disks of getSystemResources
  resources,    \* promise returned by getSystemResources()
  network,      \* promise returned by getNetworkInfo()
  info,         \* the SystemInfo built, then returned, by getAllInfo
  lastTs,       \* timestamp of the Snapshot returned by the previous call
  returnClock,  \* clock reading when the call in progress returned
  nCalls,       \* number of getAllInfo calls invoked so far
  queryLog,     \* the OS queries the call in progress has issued, in order
  resError,     \* the error a resource query of the call in progress threw
  k8sOut,       \* result of a direct getKubernetesMetadata() call
  netOut,       \* result of a direct getNetworkInfo() call
  reqOut,       \* result of a direct getRequestInfo(request) call
  factsIn,      \* the locals the object literal of lines 66-75 is evaluated on
  factsOut,     \* the object that literal evaluates to
  apiOutcome,   \* how `await getAllInfo(request)` ended in the /api/info handler
  response,     \* the Response the /api/info handler returned
  lifecycle,    \* the Dashboard component: "initial", "mounted" or "unmounted"
  refreshInterval, \* the Dashboard's refreshInterval prop (seconds)
  data,         \* Dashboard state data (null until a fetch succeeded)
  error,        \* Dashboard state error (null or a message)
  lastUpdated,  \* Dashboard state lastUpdated ('' until a fetch succeeded)
  timers,       \* the interval timers that are set, each with its period (ms)
  effectTimer,  \* the timer id the effect's cleanup will clear (0: none)
  inflight,     \* the fetches of /api/info started and not yet settled
  fetchLog,     \* what started each fetch so far: "effect", "timer" or "click"
  lastSettled,  \* the fetch that settled last, and whether it succeeded
  propChanges   \* number of times the refreshInterval prop has changed

vars == <<env, secretsDir, cpus, osIfaces, clock, request, pc, callStart, resPc,
          cpuLoad, mem, disks, resources, network, info, lastTs, returnClock,
          nCalls, queryLog, resError, k8sOut, netOut, reqOut, factsIn, factsOut,
          apiOutcome, response, lifecycle, refreshInterval, data, error,
          lastUpdated, timers, effectTimer, inflight, fetchLog, lastSettled,
          propChanges>>

-----------------------------------------------------------------------------
(* JavaScript values *)

\* The empty object {}.
EmptyMap == [k \in {} |-> ""]

\* obj[k] = v
Put(m, k, v) == [x \in DOMAIN m \cup {k} |-> IF x = k THEN v ELSE m[x]]

\* Truthiness of obj[k] for string values: undefined and "" are falsy.
Truthy(m, k) == k \in DOMAIN m /\ m[k] # ""

\* The value null, kept apart from every map the readers build.
Null == [null |-> "null"]

\* A value nothing has been assigned to yet.
None == [none |-> "none"]

\* String(error) for an Error object: "<name>: <message>".
StringOfError(e) == e.name \o ": " \o e.message

\* Outcome of a call that may throw / a promise that may reject.
Ok(v) == [ok |-> TRUE, value |-> v]
Throw(e) == [ok |-> FALSE, error |-> e]

\* Promise states.
Pending == [state |-> "pending"]
Fulfilled(v) == [state |-> "fulfilled", value |-> v]
Rejected(e) == [state |-> "rejected", reason |-> e]
Settled(p) == p.state # "pending"

-----------------------------------------------------------------------------
(* Bounds and input spaces *)

\* At most this many environment variables are set at once.
MaxSetVars == 3
\* At most this many addresses per network interface.
MaxAddrs == 2
\* At most this many headers per request.
MaxHeaders == 2
\* The clock advances at most this many times.
MaxTicks == 2
\* At most this many getAllInfo calls.
MaxCalls == 2
\* Memory readings take every total and used amount up to this many MiB.
MaxMemMiB == 12
\* The Dashboard starts at most this many fetches.
MaxFetches == 4
\* The refreshInterval prop changes at most this many times.
MaxPropChanges == 2

\* Names of environment variables: the eight allowlisted ones and one other.
EnvNames == {"KUBERNETES_SERVICE_HOST", "KUBERNETES_SERVICE_PORT", "HOSTNAME",
             "POD_NAME", "POD_NAMESPACE", "POD_IP", "NODE_NAME",
             "SERVICE_ACCOUNT", "PATH"}
EnvValues == {"", "worker-1", "default"}

\* Every environment with at most MaxSetVars variables set.
EnvSpace == UNION {[S -> EnvValues] :
                     S \in {T \in SUBSET EnvNames : Cardinality(T) <= MaxSetVars}}

\* Sequences over S of length at most n.
SeqUpTo(S, n) == UNION {[1..k -> S] : k \in 0..n}

-----------------------------------------------------------------------------
(* getKubernetesMetadata, systemInfo.ts lines 24-51 *)

\* Object.entries(k8sVars): the allowlist in insertion order.
k8sVars == << <<"KUBERNETES_SERVICE_HOST", "Kubernetes Service Host">>,
              <<"KUBERNETES_SERVICE_PORT", "Kubernetes Service Port">>,
              <<"HOSTNAME", "Pod Hostname">>,
              <<"POD_NAME", "Pod Name">>,
              <<"POD_NAMESPACE", "Pod Namespace">>,
              <<"POD_IP", "Pod IP">>,
              <<"NODE_NAME", "Node Name">>,
              <<"SERVICE_ACCOUNT", "Service Account">> >>

\* Mutant: tests that the variable is set, not that its value is truthy.
M_K8sStep(penv, k8sInfo, envVar, label) ==
  IF envVar \in DOMAIN penv THEN Put(k8sInfo, label, penv[envVar]) ELSE k8sInfo

\* Body of the for loop (lines 40-43).
K8sStep(penv, k8sInfo, envVar, label) ==
  IF Truthy(penv, envVar) THEN Put(k8sInfo, label, penv[envVar]) ELSE k8sInfo

RECURSIVE K8sLoop(_, _, _)
\* The for loop over Object.entries(k8sVars) (line 39), from entry i on.
K8sLoop(penv, i, k8sInfo) ==
  IF i > Len(k8sVars) THEN k8sInfo
  ELSE K8sLoop(penv, i + 1, K8sStep(penv, k8sInfo, k8sVars[i][1], k8sVars[i][2]))

\* Mutant: records the presence field only when the directory exists.
M_getKubernetesMetadata(penv, inK8s) ==
  LET looped == K8sLoop(penv, 1, EmptyMap)
      k8sInfo == IF inK8s THEN Put(looped, "In Kubernetes", "Yes") ELSE looped
  IN  IF Cardinality(DOMAIN k8sInfo) > 0 THEN k8sInfo ELSE Null

\* getKubernetesMetadata(), reading process.env and fs.existsSync(...).
getKubernetesMetadata(penv, inK8s) ==
  LET looped == K8sLoop(penv, 1, EmptyMap)
      k8sInfo == Put(looped, "In Kubernetes", IF inK8s THEN "Yes" ELSE "No")
  IN  IF Cardinality(DOMAIN k8sInfo) > 0 THEN k8sInfo ELSE Null

-----------------------------------------------------------------------------
(* getNetworkInfo, systemInfo.ts lines 81-114 *)

\* os.hostname()
OsHostname == "canarypiet-0"

IfaceNames == {"lo", "eth0"}
\* Addresses an interface may report (os.NetworkInterfaceInfo: family, address).
AddrSpace == {[family |-> "IPv4", address |-> "127.0.0.1"],
              [family |-> "IPv4", address |-> "10.0.0.5"],
              [family |-> "IPv4", address |-> "192.168.1.9"],
              [family |-> "IPv6", address |-> "::1"]}

\* Object.entries(os.networkInterfaces()): interfaces with distinct names, in
\* enumeration order, each with its addresses in order.
IfaceSpace ==
  {ifs \in SeqUpTo([name : IfaceNames, addrs : SeqUpTo(AddrSpace, MaxAddrs)],
                   Cardinality(IfaceNames)) :
     \A i, j \in 1..Len(ifs) : i # j => ifs[i].name # ifs[j].name}

\* The error os.networkInterfaces() throws when the system call fails.
IfaceError == [name |-> "SystemError", message |-> "uv_interface_addresses failed"]

\* Mutant: every IPv4 address overwrites 'IP Address' (last one wins).
M_NetAddrStep(networkInfo, name, addr) ==
  IF addr.family = "IPv4"
  THEN LET n1 == Put(networkInfo, "Interface " \o name, addr.address)
       IN  IF addr.address # "127.0.0.1"
           THEN Put(n1, "IP Address", addr.address) ELSE n1
  ELSE networkInfo

\* Mutant: the address family is not tested.
M_NetAddrStepAnyFamily(networkInfo, name, addr) ==
  LET n1 == Put(networkInfo, "Interface " \o name, addr.address)
  IN  IF ~Truthy(n1, "IP Address") /\ addr.address # "127.0.0.1"
      THEN Put(n1, "IP Address", addr.address) ELSE n1

\* Body of the inner for loop (lines 94-100).
NetAddrStep(networkInfo, name, addr) ==
  IF addr.family = "IPv4"
  THEN LET n1 == Put(networkInfo, "Interface " \o name, addr.address)
       IN  IF ~Truthy(n1, "IP Address") /\ addr.address # "127.0.0.1"
           THEN Put(n1, "IP Address", addr.address) ELSE n1
  ELSE networkInfo

RECURSIVE NetAddrLoop(_, _, _, _)
\* for (const addr of addrs) (line 93), from address j on.
NetAddrLoop(networkInfo, name, addrs, j) ==
  IF j > Len(addrs) THEN networkInfo
  ELSE NetAddrLoop(NetAddrStep(networkInfo, name, addrs[j]), name, addrs, j + 1)

RECURSIVE NetIfaceLoop(_, _, _)
\* for (const [name, addrs] of Object.entries(interfaces)) (line 91).
NetIfaceLoop(networkInfo, ifs, i) ==
  IF i > Len(ifs) THEN networkInfo
  ELSE NetIfaceLoop(NetAddrLoop(networkInfo, ifs[i].name, ifs[i].addrs, 1), ifs, i + 1)

\* Mutant: no loopback fallback after the loops.
M_NetFallback(networkInfo) == networkInfo

\* Lines 105-108: fall back to loopback when no 'IP Address' was set.
NetFallback(networkInfo) ==
  IF ~Truthy(networkInfo, "IP Address")
  THEN Put(networkInfo, "IP Address", "127.0.0.1") ELSE networkInfo

\* Mutant: no catch, the error propagates out of the reader.
M_NetCatch(err) == Rejected(err)

\* catch (error) { return { Error: String(error) } } (lines 111-113).
NetCatch(err) == Fulfilled([Error |-> StringOfError(err)])

\* The promise getNetworkInfo() returns.  The function has no await, so its
\* whole body runs when it is called.
getNetworkInfo(ifResult) ==
  IF ifResult.ok
  THEN Fulfilled(NetFallback(NetIfaceLoop(
         [Hostname |-> OsHostname, FQDN |-> OsHostname], ifResult.value, 1)))
  ELSE NetCatch(ifResult.error)

-----------------------------------------------------------------------------
(* getRequestInfo, systemInfo.ts lines 128-143 *)

\* Header names in the order a Headers object iterates them (sorted).
HeaderOrder == <<"accept", "user-agent", "x-forwarded-for">>
HeaderValues == {"", "curl/8.0", "203.0.113.7"}

\* A Headers object: (name, value) pairs with strictly increasing names.
HeadersSpace ==
  {h \in SeqUpTo((1..Len(HeaderOrder)) \X HeaderValues, MaxHeaders) :
     \A i \in 1..(Len(h) - 1) : h[i][1] < h[i + 1][1]}

HeaderName(entry) == HeaderOrder[entry[1]]
HeaderValue(entry) == entry[2]

\* Well-formed requests: a method, an absolute URL and headers.
RequestSpace ==
  [method : {"GET", "POST"},
   url : {[origin |-> "http://localhost:8080", pathname |-> "/api/info",
           search |-> "?probe=1"]},
   headers : HeadersSpace]

\* new URL(request.url).pathname
UrlPathname(url) == url.pathname

\* Mutant: a header with an empty value is not copied.
M_HeadersForEachStep(headers, entry) ==
  IF HeaderValue(entry) # ""
  THEN Put(headers, HeaderName(entry), HeaderValue(entry)) ELSE headers

\* Callback of request.headers.forEach (line 133).
HeadersForEachStep(headers, entry) ==
  Put(headers, HeaderName(entry), HeaderValue(entry))

RECURSIVE HeadersForEach(_, _, _)
\* request.headers.forEach(...) (lines 132-134), from entry i on.
HeadersForEach(h, i, headers) ==
  IF i > Len(h) THEN headers
  ELSE HeadersForEach(h, i + 1, HeadersForEachStep(headers, h[i]))

\* Whether request.headers.get(name) is not null.
HeadersHas(h, name) == \E i \in 1..Len(h) : HeaderName(h[i]) = name

\* request.headers.get(name), for a header that is present.
HeadersGet(h, name) ==
  HeaderValue(h[CHOOSE i \in 1..Len(h) : HeaderName(h[i]) = name])

\* Mutant: ?? in place of ||, so only an absent header yields 'N/A'.
M_GetOrNA(h, name) ==
  IF HeadersHas(h, name) THEN HeadersGet(h, name) ELSE "N/A"

\* request.headers.get(name) || 'N/A' (lines 139-140): null and "" are falsy.
GetOrNA(h, name) ==
  IF HeadersHas(h, name) /\ HeadersGet(h, name) # ""
  THEN HeadersGet(h, name) ELSE "N/A"

\* Mutant: the Headers subfield is left out when the request has no headers.
M_getRequestInfo(req) ==
  LET headers == HeadersForEach(req.headers, 1, EmptyMap)
      base == Put(Put(Put(Put(EmptyMap,
                "Method", req.method),
                "Path", UrlPathname(req.url)),
                "Remote Address", GetOrNA(req.headers, "x-forwarded-for")),
                "User Agent", GetOrNA(req.headers, "user-agent"))
  IN  IF headers = EmptyMap THEN base ELSE Put(base, "Headers", headers)

\* getRequestInfo(request)
getRequestInfo(req) ==
  LET headers == HeadersForEach(req.headers, 1, EmptyMap)
  IN  Put(Put(Put(Put(Put(EmptyMap,
        "Method", req.method),
        "Path", UrlPathname(req.url)),
        "Remote Address", GetOrNA(req.headers, "x-forwarded-for")),
        "User Agent", GetOrNA(req.headers, "user-agent")),
        "Headers", headers)

-----------------------------------------------------------------------------
(* getSystemResources, systemInfo.ts lines 53-79 *)

\* Mutant: the third decimal is cut off, not rounded.
M_ToFixed2(num, den) ==
  IF den = 0 THEN (IF num = 0 THEN "NaN" ELSE "Infinity")
  ELSE LET h == (num * 100) \div den
       IN  ToString(h \div 100) \o "." \o ToString((h % 100) \div 10)
             \o ToString(h % 10)

\* Number.prototype.toFixed(2) of the quotient num/den (num, den >= 0):
\* two decimals, rounded to nearest; 0/0 is NaN and x/0 is Infinity.
ToFixed2(num, den) ==
  IF den = 0 THEN (IF num = 0 THEN "NaN" ELSE "Infinity")
  ELSE LET h == (num * 200 + den) \div (2 * den)
       IN  ToString(h \div 100) \o "." \o ToString((h % 100) \div 10)
             \o ToString(h % 10)

\* si.currentLoad() results: currentLoad in thousandths of a percent.
CpuLoadSpace == {[currentLoad |-> 0], [currentLoad |-> 12345]}
\* si.mem() results, in MiB.
MemSpace == {[total |-> 8192, used |-> 4096], [total |-> 16000, used |-> 1000]}
\* si.fsSize() results: size and used in MiB, use in hundredths of a percent.
DiskSpace == {<< >>,
              <<[size |-> 102400, used |-> 51200, use |-> 5000]>>,
              <<[size |-> 20480, used |-> 1024, use |-> 500],
                [size |-> 102400, used |-> 51200, use |-> 5000]>>}

\* The error a failing query of the given name rejects with.
QueryError(q) == [name |-> "Error", message |-> q \o " failed"]

\* Mutant: the last entry of the list, not the first.
M_MainDisk(ds) ==
  IF Len(ds) > 0 THEN ds[Len(ds)] ELSE [size |-> 0, used |-> 0, use |-> 0]

\* disks[0] || { size: 0, used: 0, use: 0 } (line 64)
MainDisk(ds) ==
  IF Len(ds) > 0 THEN ds[1] ELSE [size |-> 0, used |-> 0, use |-> 0]

\* The object returned on lines 66-75.
ResourceFacts(load, cpuCount, m, ds) ==
  LET mainDisk == MainDisk(ds)
  IN  Put(Put(Put(Put(Put(Put(Put(Put(EmptyMap,
        "CPU Usage", ToFixed2(load.currentLoad, 1000) \o "%"),
        "CPU Count", ToString(cpuCount)),
        "Memory Total", ToFixed2(m.total, 1024) \o " GB"),
        "Memory Used", ToFixed2(m.used, 1024) \o " GB"),
        "Memory Percent", ToFixed2(m.used * 100, m.total) \o "%"),
        "Disk Total", ToFixed2(mainDisk.size, 1024) \o " GB"),
        "Disk Used", ToFixed2(mainDisk.used, 1024) \o " GB"),
        "Disk Percent", ToFixed2(mainDisk.use, 100) \o "%")

\* Mutant: no catch, the error propagates out of the reader.
M_ResCatch(err) == Rejected(err)

\* catch (error) { return { Error: String(error) } } (lines 76-78).
ResCatch(err) == Fulfilled([Error |-> StringOfError(err)])

-----------------------------------------------------------------------------
(* getPlatformInfo, getHostname, getEnvironmentVariables: lines 16-22, 116-126 *)

\* getHostname()
getHostname == OsHostname

\* getPlatformInfo(): os.cpus()[0]?.model || 'N/A' is the only computed field.
getPlatformInfo(cpuList) ==
  Put([Platform |-> "Linux 6.1.0", System |-> "Linux", Release |-> "6.1.0",
       Version |-> "#1 SMP", Machine |-> "x64",
       Processor |-> IF Len(cpuList) > 0 /\ cpuList[1] # "" THEN cpuList[1] ELSE "N/A"],
      "Node.js Version", "v20.11.0")

\* getEnvironmentVariables() returns the process.env object itself, not a copy:
\* the Snapshot holds a reference to the live table.
EnvRef == [ref |-> "process.env"]
getEnvironmentVariables == EnvRef

\* The content of a Snapshot's environment field, read now.
Deref(v) == IF v = EnvRef THEN env ELSE v

-----------------------------------------------------------------------------
(* getAllInfo, systemInfo.ts lines 145-166 *)

\* Date.prototype.toISOString(), kept as its seconds and milliseconds fields.
toISOString(ms) == [sec |-> ms \div 1000, ms |-> ms % 1000]

\* Order of two ISO-8601 timestamps (lexicographic on their fields).
IsoLeq(a, b) == a.sec < b.sec \/ (a.sec = b.sec /\ a.ms <= b.ms)

\* Mutant: the time of the previous Snapshot is kept and used again.
M_NewDate == IF lastTs = None THEN clock ELSE lastTs.sec * 1000 + lastTs.ms

\* new Date() (line 152): the clock now.
NewDate == clock

\* What `await p` yields for a settled promise.
Awaited(p) == IF p.state = "fulfilled" THEN p.value ELSE p

\* Mutant: the call goes on as soon as the network reader has settled.
M_JoinReady == Settled(network)

\* await Promise.all([...]) (lines 146-149) resumes when both promises are
\* fulfilled, or as soon as one is rejected.
JoinReady ==
  \/ resources.state = "fulfilled" /\ network.state = "fulfilled"
  \/ resources.state = "rejected"
  \/ network.state = "rejected"

\* The object literal of lines 151-159.
BuildInfo ==
  [timestamp |-> toISOString(NewDate),
   hostname |-> getHostname,
   platform |-> getPlatformInfo(cpus),
   environment |-> getEnvironmentVariables,
   kubernetes |-> getKubernetesMetadata(env, secretsDir),
   resources |-> Awaited(resources),
   network |-> Awaited(network)]

\* Environments, interface tables and requests the aggregation is run on.
AggEnvs == {EmptyMap,
            [POD_NAME |-> "worker-1", POD_NAMESPACE |-> "default", PATH |-> ""]}
AggCpus == {<< >>, <<"EPYC 7B13", "EPYC 7B13">>}
AggIfaces ==
  {Ok(<< >>),
   Ok(<<[name |-> "lo", addrs |-> <<[family |-> "IPv4", address |-> "127.0.0.1"]>>],
        [name |-> "eth0", addrs |-> <<[family |-> "IPv6", address |-> "::1"],
                                      [family |-> "IPv4", address |-> "10.0.0.5"]>>]>>),
   Throw(IfaceError)}
AggHeaders == {<< >>, << <<1, "">> >>, << <<2, "curl/8.0">>, <<3, "203.0.113.7">> >>}
AggRequests ==
  {None} \cup {r \in RequestSpace : r.method = "GET" /\ r.headers \in AggHeaders}

\* Aggregator and reader state before any call.
AggIdle ==
  /\ clock = 0 /\ request = None /\ pc = "idle" /\ callStart = 0
  /\ resPc = "idle" /\ cpuLoad = None /\ mem = None /\ disks = None
  /\ resources = Pending /\ network = Pending /\ info = None
  /\ lastTs = None /\ returnClock = 0 /\ nCalls = 0
  /\ queryLog = << >> /\ resError = None

aggVars == <<clock, request, pc, callStart, resPc, cpuLoad, mem, disks, resources,
             network, info, lastTs, returnClock, nCalls, queryLog, resError>>
hostVars == <<env, secretsDir, cpus, osIfaces>>
outVars == <<k8sOut, netOut, reqOut>>
factsVars == <<factsIn, factsOut>>
apiVars == <<apiOutcome, response>>
dashVars == <<lifecycle, refreshInterval, data, error, lastUpdated, timers,
              effectTimer, inflight, fetchLog, lastSettled, propChanges>>
extVars == <<factsVars, apiVars, dashVars>>

\* Nothing has been done outside the aggregation module.
FactsIdle == factsIn = None /\ factsOut = None
ApiIdle == apiOutcome = None /\ response = None
\* The Dashboard before it is rendered: the initial values of its useState
\* calls (lines 14-16), no timer and no fetch.
DashIdle ==
  /\ lifecycle = "initial" /\ refreshInterval = 0
  /\ data = Null /\ error = Null /\ lastUpdated = ""
  /\ timers = {} /\ effectTimer = 0 /\ inflight = {} /\ fetchLog = << >>
  /\ lastSettled = None /\ propChanges = 0
ExtIdle == FactsIdle /\ ApiIdle /\ DashIdle

Init ==
  /\ env \in AggEnvs /\ secretsDir \in BOOLEAN /\ cpus \in AggCpus
  /\ osIfaces \in AggIfaces
  /\ AggIdle
  /\ k8sOut = None /\ netOut = None /\ reqOut = None
  /\ ExtIdle

\* The wall clock advances, while no synchronous run of getAllInfo is under way.
Tick ==
  /\ pc \notin {"line147", "line148"}
  /\ clock < MaxTicks * 700
  /\ clock' = clock + 700
  /\ UNCHANGED <<hostVars, outVars, extVars, request, pc, callStart, disks,
                 resPc, cpuLoad, mem,
                 resources, network, info, lastTs, returnClock, nCalls,
                 queryLog, resError>>

\* getAllInfo(req) is invoked (line 145); a call starts after the previous
\* one has returned.
Call(req) ==
  /\ pc \in {"idle", "returned", "rejected"}
  /\ nCalls < MaxCalls
  /\ pc' = "line147"
  /\ request' = req
  /\ callStart' = clock
  /\ nCalls' = nCalls + 1
  /\ lastTs' = IF pc = "returned" THEN info.timestamp ELSE lastTs
  /\ info' = None
  /\ resources' = Pending /\ network' = Pending
  /\ resPc' = "idle" /\ cpuLoad' = None /\ mem' = None /\ disks' = None
  /\ queryLog' = << >> /\ resError' = None
  /\ UNCHANGED <<hostVars, outVars, extVars, clock, returnClock>>

\* getSystemResources() is called (line 147) and runs up to its first await:
\* si.currentLoad() is issued (line 56).
StartResources ==
  /\ pc = "line147"
  /\ resPc' = "cpu"
  /\ queryLog' = Append(queryLog, "currentLoad")
  /\ pc' = "line148"
  /\ UNCHANGED <<hostVars, outVars, extVars, clock, request, callStart, disks,
                 cpuLoad, mem,
                 resources, network, info, lastTs, returnClock, nCalls, resError>>

\* getNetworkInfo() is called (line 148); it has no await, so its body runs to
\* its return, and getAllInfo reaches its await (line 146).
StartNetwork ==
  /\ pc = "line148"
  /\ network' = getNetworkInfo(osIfaces)
  /\ queryLog' = Append(queryLog, "networkInterfaces")
  /\ pc' = "await"
  /\ UNCHANGED <<hostVars, outVars, extVars, clock, request, callStart, disks,
                 resPc, cpuLoad, mem,
                 resources, info, lastTs, returnClock, nCalls, resError>>

\* Mutant: a failed si.currentLoad() is issued once more before giving up.
M_CpuDone(out) ==
  /\ pc = "await" /\ resPc = "cpu"
  /\ IF out.ok
     THEN /\ cpuLoad' = out.value
          /\ resPc' = "mem"
          /\ queryLog' = Append(queryLog, "mem")
          /\ UNCHANGED <<resources, resError>>
     ELSE IF Len(queryLog) < 3
          THEN /\ queryLog' = Append(queryLog, "currentLoad")
               /\ UNCHANGED <<cpuLoad, resPc, resources, resError>>
          ELSE /\ resources' = ResCatch(out.error)
               /\ resError' = out.error
               /\ resPc' = "done"
               /\ UNCHANGED <<cpuLoad, queryLog>>
  /\ UNCHANGED <<hostVars, outVars, extVars, clock, request, pc, callStart,
                 disks, mem, network, info, lastTs, returnClock, nCalls>>

\* si.currentLoad() settles (line 56); on success si.mem() is issued (line 60).
CpuDone(out) ==
  /\ pc = "await" /\ resPc = "cpu"
  /\ IF out.ok
     THEN /\ cpuLoad' = out.value
          /\ resPc' = "mem"
          /\ queryLog' = Append(queryLog, "mem")
          /\ UNCHANGED <<resources, resError>>
     ELSE /\ resources' = ResCatch(out.error)
          /\ resError' = out.error
          /\ resPc' = "done"
          /\ UNCHANGED <<cpuLoad, queryLog>>
  /\ UNCHANGED <<hostVars, outVars, extVars, clock, request, pc, callStart,
                 disks, mem, network,
                 info, lastTs, returnClock, nCalls>>

\* si.mem() settles (line 60); on success si.fsSize() is issued (line 63).
MemDone(out) ==
  /\ pc = "await" /\ resPc = "mem"
  /\ IF out.ok
     THEN /\ mem' = out.value
          /\ resPc' = "disk"
          /\ queryLog' = Append(queryLog, "fsSize")
          /\ UNCHANGED <<resources, resError>>
     ELSE /\ resources' = ResCatch(out.error)
          /\ resError' = out.error
          /\ resPc' = "done"
          /\ UNCHANGED <<mem, queryLog>>
  /\ UNCHANGED <<hostVars, outVars, extVars, clock, request, pc, callStart,
                 disks, cpuLoad, network,
                 info, lastTs, returnClock, nCalls>>

\* si.fsSize() settles (line 63); on success the facts are returned (66-75).
DiskDone(out) ==
  /\ pc = "await" /\ resPc = "disk"
  /\ IF out.ok
     THEN /\ disks' = out.value
          /\ resources' = Fulfilled(ResourceFacts(cpuLoad, Len(cpus), mem, out.value))
          /\ UNCHANGED resError
     ELSE /\ resources' = ResCatch(out.error)
          /\ resError' = out.error
          /\ UNCHANGED disks
  /\ resPc' = "done"
  /\ UNCHANGED <<hostVars, outVars, extVars, clock, request, pc, callStart,
                 cpuLoad, mem,
                 network, info, lastTs, returnClock, nCalls, queryLog>>

\* The await of lines 146-149 resumes: the Snapshot is built (lines 151-159),
\* or the call rejects with the reason of a rejected reader.
Join ==
  /\ pc = "await" /\ JoinReady
  /\ IF resources.state = "rejected" \/ network.state = "rejected"
     THEN pc' = "rejected" /\ UNCHANGED info
     ELSE pc' = "built" /\ info' = BuildInfo
  /\ UNCHANGED <<hostVars, outVars, extVars, clock, request, callStart, disks,
                 resPc, cpuLoad, mem,
                 resources, network, lastTs, returnClock, nCalls, queryLog, resError>>

\* Lines 161-165: the request facts are attached when a request was supplied,
\* and the Snapshot is returned.
Return ==
  /\ pc = "built"
  /\ info' = IF request # None
             THEN Put(info, "request", getRequestInfo(request)) ELSE info
  /\ pc' = "returned"
  /\ returnClock' = clock
  /\ UNCHANGED <<hostVars, outVars, extVars, clock, request, callStart, disks,
                 resPc, cpuLoad, mem,
                 resources, network, lastTs, nCalls, queryLog, resError>>

CpuOutcomes == {Ok(l) : l \in CpuLoadSpace} \cup {Throw(QueryError("currentLoad"))}
MemOutcomes == {Ok(m) : m \in MemSpace} \cup {Throw(QueryError("mem"))}
DiskOutcomes == {Ok(d) : d \in DiskSpace} \cup {Throw(QueryError("fsSize"))}

Next ==
  \/ Tick
  \/ \E req \in AggRequests : Call(req)
  \/ StartResources
  \/ StartNetwork
  \/ \E out \in CpuOutcomes : CpuDone(out)
  \/ \E out \in MemOutcomes : MemDone(out)
  \/ \E out \in DiskOutcomes : DiskDone(out)
  \/ Join
  \/ Return

Spec == Init /\ [][Next]_vars

\* Code running in the same process assigns to process.env, between two
\* synchronous runs of getAllInfo.
SetEnv(e) ==
  /\ pc \in {"idle", "await", "returned"}
  /\ e # env
  /\ env' = e
  /\ UNCHANGED <<secretsDir, cpus, osIfaces, aggVars, outVars, extVars>>

NextEnv ==
  \/ Next
  \/ \E e \in AggEnvs : SetEnv(e)

\* getAllInfo in a process whose environment table changes.
SpecEnv == Init /\ [][NextEnv]_vars

-----------------------------------------------------------------------------
(* The readers called on their own, over all inputs within the bounds *)

\* A host on which nothing has been read yet.
HostQuiet ==
  /\ env = EmptyMap /\ secretsDir = FALSE /\ cpus = << >> /\ osIfaces = Ok(<< >>)

InitK8s ==
  /\ env \in EnvSpace /\ secretsDir \in BOOLEAN
  /\ cpus = << >> /\ osIfaces = Ok(<< >>)
  /\ AggIdle
  /\ k8sOut = None /\ netOut = None /\ reqOut = None
  /\ ExtIdle

\* getKubernetesMetadata() is called.
K8sCall ==
  /\ k8sOut = None
  /\ k8sOut' = getKubernetesMetadata(env, secretsDir)
  /\ UNCHANGED <<hostVars, aggVars, extVars, netOut, reqOut>>

SpecK8s == InitK8s /\ [][K8sCall]_vars

InitNet ==
  /\ env = EmptyMap /\ secretsDir = FALSE /\ cpus = << >>
  /\ osIfaces \in {Ok(ifs) : ifs \in IfaceSpace} \cup {Throw(IfaceError)}
  /\ AggIdle
  /\ k8sOut = None /\ netOut = None /\ reqOut = None
  /\ ExtIdle

\* getNetworkInfo() is called.
NetCall ==
  /\ netOut = None
  /\ netOut' = getNetworkInfo(osIfaces)
  /\ UNCHANGED <<hostVars, aggVars, extVars, k8sOut, reqOut>>

SpecNet == InitNet /\ [][NetCall]_vars

InitReq ==
  /\ HostQuiet
  /\ clock = 0 /\ request \in RequestSpace /\ pc = "idle" /\ callStart = 0
  /\ resPc = "idle" /\ cpuLoad = None /\ mem = None /\ disks = None
  /\ resources = Pending /\ network = Pending /\ info = None
  /\ lastTs = None /\ returnClock = 0 /\ nCalls = 0
  /\ queryLog = << >> /\ resError = None
  /\ k8sOut = None /\ netOut = None /\ reqOut = None
  /\ ExtIdle

\* getRequestInfo(request) is called.
ReqCall ==
  /\ reqOut = None
  /\ reqOut' = getRequestInfo(request)
  /\ UNCHANGED <<hostVars, aggVars, extVars, k8sOut, netOut>>

SpecReq == InitReq /\ [][ReqCall]_vars

\* Memory readings (MiB): every total up to MaxMemMiB and 1, 8 and 15.625
\* GiB, with every smaller used amount up to MaxMemMiB and 128 MiB and 4 GiB.
FactsMemSpace ==
  {m \in [total : (0..MaxMemMiB) \cup {1024, 8192, 16000},
          used : (0..MaxMemMiB) \cup {128, 4096}] : m.used <= m.total}

InitFacts ==
  /\ HostQuiet /\ AggIdle
  /\ k8sOut = None /\ netOut = None /\ reqOut = None
  /\ factsIn \in [load : CpuLoadSpace, cpuCount : {0, 2}, mem : FactsMemSpace,
                   disks : DiskSpace]
  /\ factsOut = None
  /\ ApiIdle /\ DashIdle

\* The object literal of lines 66-75 is evaluated.
FactsCall ==
  /\ factsOut = None
  /\ factsOut' = ResourceFacts(factsIn.load, factsIn.cpuCount, factsIn.mem,
                               factsIn.disks)
  /\ UNCHANGED <<hostVars, aggVars, outVars, factsIn, apiVars, dashVars>>

SpecFacts == InitFacts /\ [][FactsCall]_vars

-----------------------------------------------------------------------------
(* GET /api/info, systemInfo.ts lines 185-205 *)

\* JSON.stringify(value): the text holds the content of every field as it is
\* when the text is produced, the environment table included.
JsonStringify(v) ==
  [json |-> IF "environment" \in DOMAIN v
            THEN [v EXCEPT !.environment = Deref(v.environment)] ELSE v]

\* Mutant: the error response is sent without its status (it defaults to 200).
M_ApiHandler(outcome) ==
  IF outcome.ok
  THEN [status |-> 200, body |-> JsonStringify(outcome.value)]
  ELSE [status |-> 200, body |-> JsonStringify([error |-> StringOfError(outcome.error)])]

\* The handler's try/catch around `await getAllInfo(request)` (lines 186-204).
ApiHandler(outcome) ==
  IF outcome.ok
  THEN [status |-> 200, body |-> JsonStringify(outcome.value)]
  ELSE [status |-> 500, body |-> JsonStringify([error |-> StringOfError(outcome.error)])]

\* The values a resolved getSystemResources() may hold.
ApiResources ==
  {ResourceFacts(l, Len(cpus), m, d) : l \in CpuLoadSpace, m \in MemSpace, d \in DiskSpace}
    \cup {[Error |-> StringOfError(QueryError(q))] : q \in {"currentLoad", "mem", "fsSize"}}

\* The values a resolved getNetworkInfo() may hold.
ApiNetworks == {getNetworkInfo(r).value : r \in AggIfaces}

\* The Snapshot getAllInfo resolves with (lines 151-165).
ApiSnapshot(r, n, req) ==
  LET built == [timestamp |-> toISOString(clock),
                hostname |-> getHostname,
                platform |-> getPlatformInfo(cpus),
                environment |-> getEnvironmentVariables,
                kubernetes |-> getKubernetesMetadata(env, secretsDir),
                resources |-> r,
                network |-> n]
  IN  IF req # None THEN Put(built, "request", getRequestInfo(req)) ELSE built

\* What getAllInfo rejects with when it fails outside its two guarded readers.
ApiErrors == {[name |-> "SystemError", message |-> "uv_os_gethostname failed"],
              [name |-> "TypeError", message |-> "Invalid URL"]}

InitApi ==
  /\ HostQuiet /\ AggIdle
  /\ k8sOut = None /\ netOut = None /\ reqOut = None
  /\ FactsIdle
  /\ apiOutcome \in
       {Ok(ApiSnapshot(r, n, req)) :
          r \in ApiResources, n \in ApiNetworks, req \in AggRequests \ {None}}
         \cup {Throw(e) : e \in ApiErrors}
  /\ response = None
  /\ DashIdle

\* The handler returns its Response.
ApiRespond ==
  /\ response = None
  /\ response' = ApiHandler(apiOutcome)
  /\ UNCHANGED <<hostVars, aggVars, outVars, factsVars, apiOutcome, dashVars>>

SpecApi == InitApi /\ [][ApiRespond]_vars

-----------------------------------------------------------------------------
(* Dashboard component, unnamed/part_000 lines 13-93 *)

\* Values of the refreshInterval prop, in seconds.
IntervalValues == {0, 5, 30}

\* Messages a failed fetchData sets (line 29): the thrown 'Failed to fetch
\* data' of line 22, the message of a rejected fetch, or 'Unknown error'.
FetchErrors == {"Failed to fetch data", "Failed to fetch", "Unknown error"}

\* Which of the three returns of the component renders (lines 42, 59, 76).
View ==
  IF error # Null /\ error.message # "" THEN "error"
  ELSE IF data = Null THEN "loading" ELSE "data"

\* fetchData() is called (line 20): a fetch of /api/info is started.
StartFetch(src) ==
  /\ Len(fetchLog) < MaxFetches
  /\ fetchLog' = Append(fetchLog, src)
  /\ inflight' = inflight \cup {[id |-> Len(fetchLog) + 1, src |-> src]}

\* Mutant: the effect returns no cleanup, so the timer stays set.
M_EffectCleanup(ts, id) == ts

\* The effect's cleanup, () => clearInterval(interval) (line 38).
EffectCleanup(ts, id) == {t \in ts : t.id # id}

\* The timers set after the effect's body (lines 35-37) ran for prop value
\* ri on the timers ts; setInterval returns the fresh id.
EffectTimers(ts, ri, id) ==
  IF ri > 0 THEN ts \cup {[id |-> id, period |-> ri * 1000]} ELSE ts

\* The component mounts: the effect runs for the first time (lines 33-40).
Mount ==
  /\ lifecycle = "initial"
  /\ lifecycle' = "mounted"
  /\ StartFetch("effect")
  /\ timers' = EffectTimers(timers, refreshInterval, propChanges + 1)
  /\ effectTimer' = IF refreshInterval > 0 THEN propChanges + 1 ELSE 0
  /\ UNCHANGED <<refreshInterval, data, error, lastUpdated, lastSettled, propChanges>>
  /\ UNCHANGED <<hostVars, aggVars, outVars, factsVars, apiVars>>

\* The refreshInterval prop changes: the previous cleanup runs, then the
\* effect runs again (dependency list of line 40).
ChangeInterval(ri) ==
  /\ lifecycle = "mounted"
  /\ ri # refreshInterval
  /\ propChanges < MaxPropChanges
  /\ propChanges' = propChanges + 1
  /\ refreshInterval' = ri
  /\ StartFetch("effect")
  /\ timers' = EffectTimers(EffectCleanup(timers, effectTimer), ri,
                            propChanges + 2)
  /\ effectTimer' = IF ri > 0 THEN propChanges + 2 ELSE 0
  /\ UNCHANGED <<lifecycle, data, error, lastUpdated, lastSettled>>
  /\ UNCHANGED <<hostVars, aggVars, outVars, factsVars, apiVars>>

\* The component unmounts: the cleanup of the last effect runs.
Unmount ==
  /\ lifecycle = "mounted"
  /\ lifecycle' = "unmounted"
  /\ timers' = EffectCleanup(timers, effectTimer)
  /\ effectTimer' = 0
  /\ UNCHANGED <<refreshInterval, data, error, lastUpdated, inflight, fetchLog,
                 lastSettled, propChanges>>
  /\ UNCHANGED <<hostVars, aggVars, outVars, factsVars, apiVars>>

\* A set interval timer fires: its callback fetchData runs (line 37).
TimerFire(t) ==
  /\ t \in timers
  /\ StartFetch("timer")
  /\ UNCHANGED <<lifecycle, refreshInterval, data, error, lastUpdated, timers,
                 effectTimer, lastSettled, propChanges>>
  /\ UNCHANGED <<hostVars, aggVars, outVars, factsVars, apiVars>>

\* The Refresh button is clicked; it is rendered in the data view only
\* (lines 90-93).
ClickRefresh ==
  /\ lifecycle = "mounted"
  /\ View = "data"
  /\ StartFetch("click")
  /\ UNCHANGED <<lifecycle, refreshInterval, data, error, lastUpdated, timers,
                 effectTimer, lastSettled, propChanges>>
  /\ UNCHANGED <<hostVars, aggVars, outVars, factsVars, apiVars>>

\* The state after lines 24-27, for the fetch f that succeeded.
FetchSucceeded(f) ==
  [data |-> [snapshot |-> f.id], error |-> Null,
   lastUpdated |-> "time " \o ToString(f.id)]

\* Mutant: the catch also drops the data loaded before.
M_FetchFailed(msg) ==
  [data |-> Null, error |-> [message |-> msg], lastUpdated |-> lastUpdated]

\* The state after the catch of lines 28-30, for the message msg.
FetchFailed(msg) ==
  [data |-> data, error |-> [message |-> msg], lastUpdated |-> lastUpdated]

\* A fetch settles and fetchData runs to its end; the state updates of a
\* component that has unmounted are dropped.
FetchSettle(f, ok, msg) ==
  /\ f \in inflight
  /\ inflight' = inflight \ {f}
  /\ lastSettled' = [id |-> f.id, src |-> f.src, ok |-> ok]
  /\ LET next == IF ok THEN FetchSucceeded(f) ELSE FetchFailed(msg)
     IN  IF lifecycle = "mounted"
         THEN /\ data' = next.data
              /\ error' = next.error
              /\ lastUpdated' = next.lastUpdated
         ELSE UNCHANGED <<data, error, lastUpdated>>
  /\ UNCHANGED <<lifecycle, refreshInterval, timers, effectTimer, fetchLog,
                 propChanges>>
  /\ UNCHANGED <<hostVars, aggVars, outVars, factsVars, apiVars>>

\* The response is ok and parses (lines 20-27).
FetchOk(f) == FetchSettle(f, TRUE, "")

\* The fetch rejects, the response is not ok, or its body does not parse
\* (lines 21-23, 28-30).
FetchFail(f, msg) == FetchSettle(f, FALSE, msg)

InitDash ==
  /\ HostQuiet /\ AggIdle
  /\ k8sOut = None /\ netOut = None /\ reqOut = None
  /\ FactsIdle /\ ApiIdle
  /\ lifecycle = "initial" /\ refreshInterval \in IntervalValues
  /\ data = Null /\ error = Null /\ lastUpdated = ""
  /\ timers = {} /\ effectTimer = 0 /\ inflight = {} /\ fetchLog = << >>
  /\ lastSettled = None /\ propChanges = 0

NextDash ==
  \/ Mount
  \/ \E ri \in IntervalValues : ChangeInterval(ri)
  \/ Unmount
  \/ \E t \in timers : TimerFire(t)
  \/ ClickRefresh
  \/ \E f \in inflight : FetchOk(f)
  \/ \E f \in inflight, msg \in FetchErrors : FetchFail(f, msg)

SpecDash == InitDash /\ [][NextDash]_vars

-----------------------------------------------------------------------------
(* Claims *)

ResourceKeys == {"CPU Usage", "CPU Count", "Memory Total", "Memory Used",
                 "Memory Percent", "Disk Total", "Disk Used", "Disk Percent"}

\* C1: getSystemResources never rejects.  When one of its queries (CPU load,
\* memory, disk size) has failed it resolves with the map whose only key is
\* Error, holding the stringified error, so none of the eight resource keys is
\* present; when none has failed it resolves with exactly the eight resource
\* keys and no Error key.
C1_ResourcesNeverReject ==
  /\ resources.state # "rejected"
  /\ resPc = "done" =>
       /\ resources.state = "fulfilled"
       /\ IF resError # None
          THEN /\ DOMAIN resources.value = {"Error"}
               /\ resources.value["Error"] = StringOfError(resError)
          ELSE DOMAIN resources.value = ResourceKeys

\* The disk-size query failed after the two others succeeded, and the reader
\* resolved with the Error map.
C1_Witness ==
  /\ resPc = "done"
  /\ resError = QueryError("fsSize")
  /\ cpuLoad # None /\ mem # None
  /\ resources = Fulfilled([Error |-> "Error: fsSize failed"])

SnapshotKeys == {"timestamp", "hostname", "platform", "environment",
                 "kubernetes", "resources", "network"}

\* C2: whatever readers fail, getAllInfo resolves, with a Snapshot holding
\* timestamp, hostname, platform, environment, kubernetes, resources and
\* network; the field of a failed reader is exactly { Error: <message> } and
\* the field of the other reader has its normal keys.
C2_AggregatorNeverRaises ==
  /\ pc # "rejected"
  /\ pc \in {"built", "returned"} =>
       /\ SnapshotKeys \subseteq DOMAIN info
       /\ info.kubernetes # Null
       /\ IF resError # None
          THEN info.resources = [Error |-> StringOfError(resError)]
          ELSE DOMAIN info.resources = ResourceKeys
       /\ IF osIfaces.ok
          THEN /\ {"Hostname", "FQDN", "IP Address"} \subseteq DOMAIN info.network
               /\ "Error" \notin DOMAIN info.network
          ELSE info.network = [Error |-> StringOfError(osIfaces.error)]

\* Both readers failed and the call still returned a Snapshot.
C2_Witness ==
  /\ pc = "returned"
  /\ resError # None /\ ~osIfaces.ok
  /\ DOMAIN info.resources = {"Error"} /\ DOMAIN info.network = {"Error"}

\* Positions (interface, address) of the non-loopback IPv4 addresses.
NonLoopbackV4(ifs) ==
  {p \in UNION {{i} \X (1..Len(ifs[i].addrs)) : i \in 1..Len(ifs)} :
     /\ ifs[p[1]].addrs[p[2]].family = "IPv4"
     /\ ifs[p[1]].addrs[p[2]].address # "127.0.0.1"}

\* The earliest of these positions in enumeration order.
FirstNonLoopbackV4(ifs) ==
  CHOOSE p \in NonLoopbackV4(ifs) :
    \A q \in NonLoopbackV4(ifs) :
      p = q \/ p[1] < q[1] \/ (p[1] = q[1] /\ p[2] < q[2])

\* C3: when the interface enumeration succeeds the result has an 'IP Address'
\* key, and it is '127.0.0.1' when no interface reports an IPv4 address other
\* than 127.0.0.1 (no interfaces and IPv6-only interfaces included).
C3_LoopbackFallback ==
  (netOut # None /\ osIfaces.ok) =>
    /\ netOut.state = "fulfilled"
    /\ "IP Address" \in DOMAIN netOut.value
    /\ NonLoopbackV4(osIfaces.value) = {} => netOut.value["IP Address"] = "127.0.0.1"

\* Only an IPv6 address is reported, and 'IP Address' fell back to loopback.
C3_Witness ==
  /\ netOut # None /\ osIfaces.ok
  /\ osIfaces.value = <<[name |-> "eth0", addrs |-> <<[family |-> "IPv6", address |-> "::1"]>>]>>
  /\ netOut.value["IP Address"] = "127.0.0.1"

\* C4: when some interface reports an IPv4 address other than 127.0.0.1,
\* 'IP Address' is the first such address in enumeration order: no later
\* address overwrites it and no earlier loopback address takes its place.
C4_FirstNonLoopback ==
  (netOut # None /\ osIfaces.ok /\ NonLoopbackV4(osIfaces.value) # {}) =>
    LET p == FirstNonLoopbackV4(osIfaces.value)
    IN  netOut.value["IP Address"] = osIfaces.value[p[1]].addrs[p[2]].address

\* Loopback comes first and two non-loopback addresses follow: the first of
\* the two is the 'IP Address'.
C4_Witness ==
  /\ netOut # None /\ osIfaces.ok
  /\ osIfaces.value =
       <<[name |-> "lo", addrs |-> <<[family |-> "IPv4", address |-> "127.0.0.1"]>>],
         [name |-> "eth0", addrs |-> <<[family |-> "IPv4", address |-> "10.0.0.5"],
                                       [family |-> "IPv4", address |-> "192.168.1.9"]>>]>>
  /\ netOut.value["IP Address"] = "10.0.0.5"

\* C5: getKubernetesMetadata never returns null: its result is a non-empty map
\* with the key 'In Kubernetes', which is 'Yes' exactly when the secrets
\* directory exists and 'No' otherwise.
C5_PresenceField ==
  k8sOut # None =>
    /\ k8sOut # Null
    /\ DOMAIN k8sOut # {}
    /\ "In Kubernetes" \in DOMAIN k8sOut
    /\ k8sOut["In Kubernetes"] = (IF secretsDir THEN "Yes" ELSE "No")

\* No variable is set and the directory is missing: the map holds the presence
\* field alone.
C5_Witness ==
  /\ env = EmptyMap /\ ~secretsDir
  /\ k8sOut = Put(EmptyMap, "In Kubernetes", "No")

\* C6: the orchestration map holds the label of an allowlisted variable if and
\* only if that variable is set and non-empty, with the variable's value, and
\* holds no key besides the labels and 'In Kubernetes'.  With only
\* POD_NAME=worker-1 and POD_NAMESPACE=default set and no secrets directory it
\* is { 'Pod Name': 'worker-1', 'Pod Namespace': 'default', 'In Kubernetes': 'No' }.
C6_AllowlistedLabels ==
  k8sOut # None =>
    /\ \A i \in 1..Len(k8sVars) :
         LET envVar == k8sVars[i][1]
             label == k8sVars[i][2]
         IN  /\ label \in DOMAIN k8sOut <=> (envVar \in DOMAIN env /\ env[envVar] # "")
             /\ label \in DOMAIN k8sOut => k8sOut[label] = env[envVar]
    /\ DOMAIN k8sOut \subseteq
         {k8sVars[i][2] : i \in 1..Len(k8sVars)} \cup {"In Kubernetes"}
    /\ (env = [POD_NAME |-> "worker-1", POD_NAMESPACE |-> "default"] /\ ~secretsDir) =>
         k8sOut = Put(Put(Put(EmptyMap, "Pod Name", "worker-1"),
                          "Pod Namespace", "default"), "In Kubernetes", "No")

\* The scenario of the claim, with its three-entry result.
C6_Witness ==
  /\ env = [POD_NAME |-> "worker-1", POD_NAMESPACE |-> "default"] /\ ~secretsDir
  /\ k8sOut # None
  /\ DOMAIN k8sOut = {"Pod Name", "Pod Namespace", "In Kubernetes"}

RequestKeys == {"Method", "Path", "Remote Address", "User Agent", "Headers"}

\* C7: the Snapshot getAllInfo returns has no 'request' field when no request
\* was supplied; when one was supplied it has a 'request' field with exactly
\* the subfields Method, Path, Remote Address, User Agent and Headers, and
\* Headers is a map (empty when the request has no header) with one entry per
\* request header.
C7_RequestField ==
  pc = "returned" =>
    IF request = None
    THEN "request" \notin DOMAIN info
    ELSE /\ "request" \in DOMAIN info
         /\ DOMAIN info.request = RequestKeys
         /\ DOMAIN info.request["Headers"] =
              {HeaderName(request.headers[i]) : i \in 1..Len(request.headers)}
         /\ \A i \in 1..Len(request.headers) :
              info.request["Headers"][HeaderName(request.headers[i])]
                = HeaderValue(request.headers[i])

\* A request without headers was supplied: Headers is present and empty.
C7_Witness ==
  /\ pc = "returned"
  /\ request # None /\ request.headers = << >>
  /\ "request" \in DOMAIN info
  /\ info.request["Headers"] = EmptyMap

\* C8 as stated: 'Remote Address' is the x-forwarded-for value whenever the
\* request carries that header and 'N/A' exactly when it does not; likewise
\* 'User Agent' and the user-agent header.
C8_Original ==
  reqOut # None =>
    /\ HeadersHas(request.headers, "x-forwarded-for") =>
         reqOut["Remote Address"] = HeadersGet(request.headers, "x-forwarded-for")
    /\ reqOut["Remote Address"] = "N/A" <=> ~HeadersHas(request.headers, "x-forwarded-for")
    /\ HeadersHas(request.headers, "user-agent") =>
         reqOut["User Agent"] = HeadersGet(request.headers, "user-agent")
    /\ reqOut["User Agent"] = "N/A" <=> ~HeadersHas(request.headers, "user-agent")

\* C8, amended: 'Remote Address' is the x-forwarded-for value when the request
\* carries that header with a non-empty value, and 'N/A' when the header is
\* absent or its value is empty; likewise 'User Agent' and the user-agent
\* header.
C8_HeaderOrNA ==
  reqOut # None =>
    /\ reqOut["Remote Address"] =
         (IF \E i \in 1..Len(request.headers) :
                request.headers[i] \in {<<3, v>> : v \in HeaderValues \ {""}}
          THEN HeadersGet(request.headers, "x-forwarded-for") ELSE "N/A")
    /\ reqOut["User Agent"] =
         (IF \E i \in 1..Len(request.headers) :
                request.headers[i] \in {<<2, v>> : v \in HeaderValues \ {""}}
          THEN HeadersGet(request.headers, "user-agent") ELSE "N/A")

\* The request carries x-forwarded-for with an empty value, and 'Remote
\* Address' is 'N/A'.
C8_Witness ==
  /\ reqOut # None
  /\ request.headers = << <<2, "curl/8.0">>, <<3, "">> >>
  /\ reqOut["Remote Address"] = "N/A"
  /\ reqOut["User Agent"] = "curl/8.0"

\* C9: when getAllInfo waits, both readers have been started; the Snapshot is
\* built only once both have completed, and its resources and network fields
\* are the two readers' results.
C9_JoinBeforeBuild ==
  /\ pc = "await" =>
       /\ resPc # "idle"
       /\ \E i \in 1..Len(queryLog) : queryLog[i] = "currentLoad"
       /\ \E i \in 1..Len(queryLog) : queryLog[i] = "networkInterfaces"
  /\ pc \in {"built", "returned"} =>
       /\ resPc = "done"
       /\ resources.state = "fulfilled" /\ network.state = "fulfilled"
       /\ info.resources = resources.value
       /\ info.network = network.value
       /\ info.timestamp # None

\* The Snapshot has been built after the network reader ran first and the
\* three resource queries completed after it.
C9_Witness ==
  /\ pc = "built"
  /\ queryLog = <<"currentLoad", "networkInterfaces", "mem", "fsSize">>
  /\ resources.state = "fulfilled" /\ network.state = "fulfilled"
  /\ info.resources = resources.value /\ info.network = network.value

\* C10: the timestamp of a returned Snapshot was read from the clock between
\* the invocation and the return of its own call, so it is not earlier than
\* the timestamp of the Snapshot the previous call returned.
C10_TimestampFresh ==
  pc = "returned" =>
    /\ IsoLeq(toISOString(callStart), info.timestamp)
    /\ IsoLeq(info.timestamp, toISOString(returnClock))
    /\ lastTs # None => IsoLeq(lastTs, info.timestamp)

\* A second call returned, started after the clock had advanced, with a later
\* timestamp than the first.
C10_Witness ==
  /\ pc = "returned" /\ nCalls = 2
  /\ lastTs # None /\ lastTs # info.timestamp
  /\ callStart > 0
  /\ info.timestamp.sec >= 1

\* A number with two decimals, from its value in hundredths.
Decimal2(h) ==
  ToString(h \div 100) \o "." \o (IF h % 100 < 10 THEN "0" ELSE "")
    \o ToString(h % 100)

\* str is num/den rounded to the nearest hundredth, followed by suffix.
IsRounded2(str, num, den, suffix) ==
  \E h \in ((100 * num) \div den)..((100 * num) \div den + 1) :
    /\ 2 * (100 * num - h * den) <= den
    /\ 2 * (h * den - 100 * num) <= den
    /\ str = Decimal2(h) \o suffix

\* C11: for a memory reading with total > 0 and 0 <= used <= total, 'Memory
\* Percent' is used/total*100 rounded to two decimals with '%', and 'Memory
\* Total' and 'Memory Used' are the amounts in GiB rounded to two decimals
\* with ' GB'; total 8 GiB and used 4 GiB give '50.00%' and '4.00 GB'.
C11_MemoryFormat ==
  (factsOut # None /\ factsIn.mem.total > 0) =>
    /\ IsRounded2(factsOut["Memory Percent"], factsIn.mem.used * 100,
                  factsIn.mem.total, "%")
    /\ IsRounded2(factsOut["Memory Total"], factsIn.mem.total, 1024, " GB")
    /\ IsRounded2(factsOut["Memory Used"], factsIn.mem.used, 1024, " GB")
    /\ factsIn.mem = [total |-> 8192, used |-> 4096] =>
         /\ factsOut["Memory Percent"] = "50.00%"
         /\ factsOut["Memory Used"] = "4.00 GB"
         /\ factsOut["Memory Total"] = "8.00 GB"

\* The reading of the scenario has been formatted.
C11_Witness ==
  /\ factsOut # None
  /\ factsIn.mem = [total |-> 8192, used |-> 4096]
  /\ factsOut["Memory Percent"] = "50.00%"
  /\ factsOut["Memory Used"] = "4.00 GB"

\* C12: when the CPU and memory queries succeed and the disk-size query
\* returns an empty list, the reader resolves with the eight keys and the disk
\* fields '0.00 GB', '0.00 GB' and '0.00%'; for a non-empty list the disk
\* fields come from its first entry alone.
C12_DiskDefault ==
  (resPc = "done" /\ resError = None) =>
    /\ resources.state = "fulfilled"
    /\ DOMAIN resources.value = ResourceKeys
    /\ IF disks = << >>
       THEN /\ resources.value["Disk Total"] = "0.00 GB"
            /\ resources.value["Disk Used"] = "0.00 GB"
            /\ resources.value["Disk Percent"] = "0.00%"
       ELSE /\ IsRounded2(resources.value["Disk Total"], disks[1].size, 1024, " GB")
            /\ IsRounded2(resources.value["Disk Used"], disks[1].used, 1024, " GB")
            /\ IsRounded2(resources.value["Disk Percent"], disks[1].use, 100, "%")

\* The disk-size query returned an empty list and the reader resolved with
\* the zero-valued disk fields.
C12_Witness ==
  /\ resPc = "done" /\ resError = None
  /\ disks = << >>
  /\ "Error" \notin DOMAIN resources.value
  /\ resources.value["Disk Percent"] = "0.00%"

\* The resource queries in the order the reader issues them.
ResourceQueryOrder == <<"currentLoad", "mem", "fsSize">>

\* The resource queries a call has issued, in order.
ResourceQueries == SelectSeq(queryLog, LAMBDA q : q # "networkInterfaces")

\* C13: within one getAllInfo call every OS query is issued at most once.  The
\* resource queries are issued in the order CPU load, memory, disk size, each
\* after the one before it succeeded; the failing query is the last one
\* issued, and its failure is reported as the Error field.
C13_NoRetries ==
  /\ Len(SelectSeq(queryLog, LAMBDA q : q = "networkInterfaces")) <= 1
  /\ Len(ResourceQueries) <= Len(ResourceQueryOrder)
  /\ \A i \in 1..Len(ResourceQueries) : ResourceQueries[i] = ResourceQueryOrder[i]
  /\ Len(ResourceQueries) >= 2 => cpuLoad # None
  /\ Len(ResourceQueries) >= 3 => mem # None
  /\ resError # None =>
       /\ resPc = "done"
       /\ resError = QueryError(ResourceQueries[Len(ResourceQueries)])
       /\ resources = Fulfilled([Error |-> StringOfError(resError)])
       /\ pc \in {"built", "returned"} =>
            info.resources = [Error |-> StringOfError(resError)]

\* The memory query failed: the disk-size query was never issued and the
\* returned Snapshot reports the failure.
C13_Witness ==
  /\ pc = "returned"
  /\ queryLog = <<"currentLoad", "networkInterfaces", "mem">>
  /\ resError = QueryError("mem")
  /\ info.resources = [Error |-> "Error: mem failed"]

\* The returned Snapshot as a reader of it sees it now.
SnapshotView == [info EXCEPT !.environment = Deref(info.environment)]

\* C14: once getAllInfo has returned a Snapshot, every field of it, the
\* environment field included, stays as it is under any later step, a later
\* change of the process's environment table in particular.
C14_SnapshotFrozen ==
  [][(pc = "returned" /\ pc' = "returned") => SnapshotView' = SnapshotView]_vars

\* C15: the /api/info handler always returns a Response: status 200 with the
\* serialized Snapshot whenever getAllInfo resolved, an Error placeholder in
\* its resources or network field included, and status 500 with
\* { error: <message> } exactly when getAllInfo raised.
C15_HandlerStatus ==
  response # None =>
    /\ response.status \in {200, 500}
    /\ response.status = 500 <=> ~apiOutcome.ok
    /\ apiOutcome.ok =>
         /\ DOMAIN response.body.json = DOMAIN apiOutcome.value
         /\ response.body.json.resources = apiOutcome.value.resources
         /\ response.body.json.network = apiOutcome.value.network
         /\ response.body.json.timestamp = apiOutcome.value.timestamp
    /\ ~apiOutcome.ok =>
         /\ DOMAIN response.body.json = {"error"}
         /\ response.body.json.error = StringOfError(apiOutcome.error)

\* Both readers failed inside getAllInfo, and the handler still answered 200
\* with the Snapshot holding the two Error placeholders.
C15_Witness ==
  /\ response # None /\ apiOutcome.ok
  /\ response.status = 200
  /\ DOMAIN response.body.json.resources = {"Error"}
  /\ DOMAIN response.body.json.network = {"Error"}

\* The IPv4 addresses interface i of the table reports.
V4Addresses(ifs, i) ==
  {ifs[i].addrs[j].address :
     j \in {k \in 1..Len(ifs[i].addrs) : ifs[i].addrs[k].family = "IPv4"}}

\* C16: a non-error network result has an 'Interface <name>' entry for each
\* interface that reports an IPv4 address and for no other interface, each
\* holding an IPv4 address of that interface; besides these it holds
\* 'Hostname', 'FQDN' and 'IP Address', and 'Hostname' equals 'FQDN'.
C16_InterfaceEntries ==
  (netOut # None /\ osIfaces.ok) =>
    LET ifs == osIfaces.value
        v == netOut.value
        withV4 == {i \in 1..Len(ifs) : V4Addresses(ifs, i) # {}}
    IN  /\ DOMAIN v = {"Hostname", "FQDN", "IP Address"}
                        \cup {"Interface " \o ifs[i].name : i \in withV4}
        /\ \A i \in withV4 : v["Interface " \o ifs[i].name] \in V4Addresses(ifs, i)
        /\ v["Hostname"] = v["FQDN"]

\* One interface reports only an IPv6 address and has no entry; the other has
\* two IPv4 addresses and one entry.
C16_Witness ==
  /\ netOut # None /\ osIfaces.ok
  /\ osIfaces.value =
       <<[name |-> "lo", addrs |-> <<[family |-> "IPv6", address |-> "::1"]>>],
         [name |-> "eth0", addrs |-> <<[family |-> "IPv4", address |-> "10.0.0.5"],
                                       [family |-> "IPv4", address |-> "192.168.1.9"]>>]>>
  /\ DOMAIN netOut.value = {"Hostname", "FQDN", "IP Address", "Interface eth0"}


\* The fetches started so far by the source src.
FetchesBy(src) == {i \in 1..Len(fetchLog) : fetchLog[i] = src}

\* The timers the mounted component has set: one of period refreshInterval
\* seconds when refreshInterval > 0, none when it is 0; none once unmounted.
TimerDiscipline ==
  /\ Cardinality(timers) <= 1
  /\ lifecycle = "mounted" /\ refreshInterval > 0
       => timers = {[id |-> effectTimer, period |-> refreshInterval * 1000]}
  /\ lifecycle = "mounted" /\ refreshInterval = 0 => timers = {}
  /\ lifecycle # "mounted" => timers = {}

\* C17: mounting starts exactly one fetch; while mounted there is one timer
\* of period refreshInterval seconds if refreshInterval > 0 and none if it
\* is 0; unmounting or changing refreshInterval clears the previous timer, so
\* at most one timer is set at any time; and a timer-driven fetch starts
\* only while the component is mounted with refreshInterval > 0.
C17_AutoRefresh ==
  /\ []TimerDiscipline
  /\ [][/\ (lifecycle = "initial" /\ lifecycle' = "mounted"
              => fetchLog' = <<"effect">>)
         /\ (FetchesBy("timer")' # FetchesBy("timer")
              => lifecycle = "mounted" /\ refreshInterval > 0)]_vars

\* A timer-driven fetch was started, the prop then changed, and the
\* component has unmounted.
C17_Witness ==
  /\ lifecycle = "unmounted"
  /\ propChanges > 0
  /\ FetchesBy("timer") # {}
  /\ \E i \in FetchesBy("timer"), j \in FetchesBy("effect") : 1 < j /\ i < j

\* The step is the settling of a fetch of the mounted component.
Settles(ok) ==
  /\ lifecycle = "mounted"
  /\ lastSettled' # lastSettled
  /\ lastSettled'.ok = ok

\* C18 as stated: with a refreshInterval that has been 0 since the mount,
\* once the error view is shown it is shown for as long as the component
\* stays mounted with that prop.
C18_Original ==
  [][(/\ lifecycle = "mounted" /\ lifecycle' = "mounted"
      /\ propChanges = 0 /\ refreshInterval = 0 /\ refreshInterval' = 0
      /\ View = "error") => View' = "error"]_vars

\* C18: a failed fetch sets the error and leaves data and lastUpdated as
\* they were; a fetch is started from the error view by the timer or the
\* effect only, never by the Refresh button; a successful fetch clears the
\* error, replaces data and shows the data view; and with refreshInterval =
\* 0 the error view stays while no fetch started earlier is still in flight.
C18_ErrorState ==
  [][/\ (Settles(FALSE)
          => /\ View' = "error"
             /\ data' = data /\ lastUpdated' = lastUpdated)
     /\ (View = "error" => FetchesBy("click")' = FetchesBy("click"))
     /\ (Settles(TRUE)
          => /\ error' = Null /\ View' = "data"
             /\ data' = [snapshot |-> lastSettled'.id])
     /\ (/\ lifecycle = "mounted" /\ lifecycle' = "mounted"
         /\ refreshInterval = 0 /\ refreshInterval' = 0
         /\ View = "error" /\ inflight = {}
         => View' = "error" /\ inflight' = {})]_vars

\* With refreshInterval = 0 a fetch failed after data was loaded and no
\* other fetch is in flight: the error view is shown over the kept data.
C18_Witness ==
  /\ lifecycle = "mounted" /\ refreshInterval = 0 /\ propChanges = 0
  /\ View = "error" /\ data # Null /\ lastUpdated # ""
  /\ inflight = {}
  /\ lastSettled # None /\ ~lastSettled.ok

====
